---- MODULE Spec2Model ----
(***************************************************************************)
(* Model of the IS31FL3731 matrix LED driver (src/src/lib.rs).             *)
(*                                                                         *)
(* The driver owns one field of software state, current_frame, and talks   *)
(* to the chip through blocking bus writes.  The chip is modelled by its   *)
(* selected bank and its register pages; a bus write is a byte sequence    *)
(* whose first byte is a register address and whose remaining bytes are    *)
(* stored at auto-incrementing addresses.  The bus may fail any write; a   *)
(* failed write is reported to the driver and does not reach the chip.     *)
(***************************************************************************)
EXTENDS Integers, Sequences, FiniteSets, TLC

(***************************************************************************)
(* Register map and sizes, as the source spells them.                      *)
(***************************************************************************)
ISSI_REG_PICTUREFRAME == 1
ISSI_REG_SHUTDOWN == 10
ISSI_REG_AUDIOSYNC == 6
ISSI_COMMANDREGISTER == 253
ISSI_BANK_FUNCTIONREG == 11

\* frame > 7 : the largest valid frame index
MaxFrame == 7
\* for f in 0..8u8
NumFrames == 8
\* for i in 0x00..0x12 : the LED-enable registers 0x00-0x11
EnableEnd == 18
\* for i in 0x12..0xb4 : one past the last register of a frame page
FrameEnd == 180
\* [0u8; 0xb5]
ClearLen == 181
\* [c; 145]
FillLen == 145
\* command[0] = 0x24 : first register of the PWM table
PwmBase == 36
\* d.delay_ms(10)
ResetDelayMs == 10

(***************************************************************************)
(* Bounds of the model.                                                    *)
(***************************************************************************)
\* number of driver calls explored after construction
MaxOps == 2
\* longest pixel sequence handed to draw_iter
MaxPixels == 2

Byte == 0 .. 255

\* frame arguments tried: both valid ends, one between, the first invalid value, u8::MAX
FrameArgs == {0, 3, 7, 8, 255}
\* intensities tried
Intensities == {11, 16, 255}
\* the LED grid draw_pixel is declared for
GridX == 0 .. 15
GridY == 0 .. 7
\* coordinates tried in long call sequences: grid corners and the two worked
\* examples, then coordinates off the grid
PixelArgs == {<<0, 0>>, <<15, 7>>, <<16, 0>>, <<5, -130>>}
\* pixels handed to draw_iter: i32 coordinates, the second pair wider than i16
IterPixels == {<<0, 0, 255>>, <<65544, 0, 16>>}
\* coordinates off the grid: a margin around it, and far ones up to the ends
\* of i16
NearX == -2 .. 17
NearY == -2 .. 10
FarArgs == {<<5, -130>>, <<8, 32767>>, <<3000, 0>>, <<0, -32768>>,
            <<-32768, -32768>>, <<32767, 32767>>}
OffGridArgs == ((NearX \X NearY) \ (GridX \X GridY)) \cup FarArgs
\* register contents the chip may hold before construction
InitFill == {0, 165}
\* bank the chip may have selected before construction
InitBanks == {0, 11}

(***************************************************************************)
(* The chip.                                                               *)
(***************************************************************************)
Frames == 0 .. (NumFrames - 1)
Banks == Frames \cup {ISSI_BANK_FUNCTIONREG}
FrameRegs == 0 .. (FrameEnd - 1)
\* the function page holds registers 0x00-0x0C, the named ones among them
FunctionRegs == 0 .. 12
RegsOf(b) == IF b = ISSI_BANK_FUNCTIONREG THEN FunctionRegs ELSE FrameRegs

\* one data byte v arriving for register address r
DevByte(dev, r, v) ==
    IF r = ISSI_COMMANDREGISTER
    THEN [dev EXCEPT !.bank = v]
    ELSE IF dev.bank \in Banks /\ r \in RegsOf(dev.bank)
         THEN [dev EXCEPT !.regs[dev.bank][r] = v]
         ELSE dev

\* position in a bus write of the data byte that lands on register address r
\* (byte 1 is the start address; the address auto-increments per data byte)
DataPos(bytes, r) == 2 + ((r - bytes[1]) % 256)

\* bank selected when the data byte at position i arrives: a data byte that
\* landed on the command register earlier in the same write switched it
BankAt(dev, bytes, i) ==
    LET p == DataPos(bytes, ISSI_COMMANDREGISTER)
    IN  IF p < i /\ p <= Len(bytes) THEN bytes[p] ELSE dev.bank

\* one successful bus write
DevWrite(dev, bytes) ==
    IF Len(bytes) = 2
    THEN DevByte(dev, bytes[1], bytes[2])
    ELSE LET last == BankAt(dev, bytes, Len(bytes) + 1)
         IN  [bank |-> last,
              regs |-> [b \in Banks |->
                          IF b # dev.bank /\ b # last
                          THEN dev.regs[b]
                          ELSE [r \in RegsOf(b) |->
                                  LET i == DataPos(bytes, r)
                                  IN  IF i <= Len(bytes) /\ BankAt(dev, bytes, i) = b
                                      THEN bytes[i]
                                      ELSE dev.regs[b][r]]]]

(***************************************************************************)
(* The bus.  An operation runs on a context c: the driver's field, the     *)
(* chip, the events issued so far, the number of writes attempted, the     *)
(* index of the write the bus will fail (0: none), and how it ended.       *)
(***************************************************************************)
Ev(kind, bytes, ok) == [kind |-> kind, bytes |-> bytes, ok |-> ok]

\* self.i2c.write(self.a, &bytes)
i2c_write(c, bytes) ==
    IF c.n + 1 = c.failAt
    THEN [c EXCEPT !.n = @ + 1,
                   !.log = Append(@, Ev("write", bytes, FALSE)),
                   !.err = TRUE]
    ELSE LET d == DevWrite([bank |-> c.bank, regs |-> c.regs], bytes)
         IN  [c EXCEPT !.n = @ + 1,
                       !.log = Append(@, Ev("write", bytes, TRUE)),
                       !.bank = d.bank,
                       !.regs = d.regs]

\* d.delay_ms(ms)
delay_ms(c, ms) == [c EXCEPT !.log = Append(@, Ev("delay", <<ms>>, TRUE))]

(***************************************************************************)
(* The driver.                                                             *)
(***************************************************************************)
\* a plausible slip: the bound one too high
select_frame_bound_high(c, frame) ==
    [c EXCEPT !.current_frame = IF frame > MaxFrame + 1 THEN 0 ELSE frame]

\* a plausible slip: >= for >
select_frame_bound_low(c, frame) ==
    [c EXCEPT !.current_frame = IF frame >= MaxFrame THEN 0 ELSE frame]

select_frame(c, frame) ==
    [c EXCEPT !.current_frame = IF frame > MaxFrame THEN 0 ELSE frame]

\* a plausible slip: a failed bank select is tried a second time
select_bank_retry(c, bank) ==
    LET c1 == i2c_write(c, <<ISSI_COMMANDREGISTER, bank>>)
    IN  IF c1.err
        THEN i2c_write([c1 EXCEPT !.err = FALSE], <<ISSI_COMMANDREGISTER, bank>>)
        ELSE c1

select_bank(c, bank) == i2c_write(c, <<ISSI_COMMANDREGISTER, bank>>)

\* a plausible slip: the register is written without selecting its bank
write_to_bank_unselected(c, bank, reg, value) == i2c_write(c, <<reg, value>>)

write_to_bank(c, bank, reg, value) ==
    LET c1 == select_bank(c, bank)
    IN  IF c1.err THEN c1 ELSE i2c_write(c1, <<reg, value>>)

\* a plausible slip: the enable loop stops one register early
clear_command_short_enable ==
    [j \in 1 .. ClearLen |->
        IF j = 1 THEN 0
        ELSE IF (j - 2) \in 0 .. (EnableEnd - 2) THEN 255
        ELSE 0]

\* the command buffer clear() builds: address 0x00, 18 x 0xFF, 162 x 0x00
clear_command ==
    [j \in 1 .. ClearLen |->
        IF j = 1 THEN 0
        ELSE IF (j - 2) \in 0 .. (EnableEnd - 1) THEN 255
        ELSE 0]

\* a plausible slip: the frame's bank is not selected before the command
clear_unselected(c) == i2c_write(c, clear_command)

clear(c) ==
    LET c1 == select_bank(c, c.current_frame)
    IN  IF c1.err THEN c1 ELSE i2c_write(c1, clear_command)

\* a plausible slip: the frame index written to the shutdown register
display_frame_wrong_register(c, frame) ==
    LET f == IF frame > MaxFrame THEN 0 ELSE frame
    IN  write_to_bank(c, ISSI_BANK_FUNCTIONREG, ISSI_REG_SHUTDOWN, f)

\* a plausible slip: the clamp left out
display_frame_unclamped(c, frame) ==
    write_to_bank(c, ISSI_BANK_FUNCTIONREG, ISSI_REG_PICTUREFRAME, frame)

\* a plausible slip: showing a frame also makes it the drawing frame
display_frame_selecting(c, frame) ==
    LET f == IF frame > MaxFrame THEN 0 ELSE frame
    IN  write_to_bank([c EXCEPT !.current_frame = f],
                      ISSI_BANK_FUNCTIONREG, ISSI_REG_PICTUREFRAME, f)

display_frame(c, frame) ==
    LET f == IF frame > MaxFrame THEN 0 ELSE frame
    IN  write_to_bank(c, ISSI_BANK_FUNCTIONREG, ISSI_REG_PICTUREFRAME, f)

\* a plausible slip: the register address is not stored in byte 0
fill_command_no_address(v) == [j \in 1 .. FillLen |-> v]

\* a plausible slip: the command starts at register 0x00 like clear's
fill_command_from_zero(v) == [j \in 1 .. FillLen |-> IF j = 1 THEN 0 ELSE v]

\* the command buffer fill(v) builds: address 0x24, 144 x v
fill_command(v) == [j \in 1 .. FillLen |-> IF j = 1 THEN PwmBase ELSE v]

\* a plausible slip: the fill always goes to frame 0
fill_frame_zero(c, v) ==
    LET c1 == select_bank(c, 0)
    IN  IF c1.err THEN c1 ELSE i2c_write(c1, fill_command(v))

fill(c, v) ==
    LET c1 == select_bank(c, c.current_frame)
    IN  IF c1.err THEN c1 ELSE i2c_write(c1, fill_command(v))

\* two's-complement wrap of v to 16 and to 8 bits
I16(v) == ((v + 32768) % 65536) - 32768
AsU8(v) == v % 256

\* a plausible slip: the swap of x and y left out
pixel_steps_no_swap(x, y) ==
    LET x1m == IF x > 7 THEN 15 - x ELSE x
        y1m == IF x > 7 THEN y + 8 ELSE 7 - y
        x1  == I16(x1m)
        y1  == I16(y1m)
        prodm == y1 * 16
        summ  == x1 + I16(prodm)
        regm  == PwmBase + AsU8(I16(summ))
    IN  [x1m |-> x1m, y1m |-> y1m, x1 |-> x1, y1 |-> y1,
         prodm |-> prodm, summ |-> summ, pixel_num |-> I16(summ),
         regm |-> regm, reg |-> AsU8(regm)]

\* a plausible slip: a row stride of 32 instead of 16
pixel_steps_wide_stride(x, y) ==
    LET x1m == IF x > 7 THEN 15 - x ELSE x
        y1m == IF x > 7 THEN y + 8 ELSE 7 - y
        x1  == I16(x1m)
        y1  == I16(y1m)
        x2  == y1
        y2  == x1
        prodm == y2 * 32
        summ  == x2 + I16(prodm)
        regm  == PwmBase + AsU8(I16(summ))
    IN  [x1m |-> x1m, y1m |-> y1m, x1 |-> x1, y1 |-> y1,
         prodm |-> prodm, summ |-> summ, pixel_num |-> I16(summ),
         regm |-> regm, reg |-> AsU8(regm)]

\* draw_pixel's arithmetic, each step on the wrapped result of the one before;
\* the fields ending in m are the exact results before wrapping
pixel_steps(x, y) ==
    LET x1m == IF x > 7 THEN 15 - x ELSE x
        y1m == IF x > 7 THEN y + 8 ELSE 7 - y
        x1  == I16(x1m)
        y1  == I16(y1m)
        \* let t = x; x = y; y = t;
        x2  == y1
        y2  == x1
        prodm == y2 * 16
        summ  == x2 + I16(prodm)
        regm  == PwmBase + AsU8(I16(summ))
    IN  [x1m |-> x1m, y1m |-> y1m, x1 |-> x1, y1 |-> y1,
         prodm |-> prodm, summ |-> summ, pixel_num |-> I16(summ),
         regm |-> regm, reg |-> AsU8(regm)]

\* let pixel_num = x + y * 16;
pixel_num(x, y) == pixel_steps(x, y).pixel_num

\* a plausible slip: the base of the PWM table left out
pixel_reg_no_base(x, y) == AsU8(pixel_steps(x, y).pixel_num)

\* 0x24 + pixel_num as u8
pixel_reg(x, y) == pixel_steps(x, y).reg

\* some step of the arithmetic leaves its integer type
pixel_overflows(x, y) ==
    LET s == pixel_steps(x, y)
    IN  \/ s.x1m # s.x1
        \/ s.y1m # s.y1
        \/ s.prodm # I16(s.prodm)
        \/ s.summ # s.pixel_num
        \/ s.regm # s.reg

\* a plausible change: coordinates off the grid are rejected without a write
draw_pixel_validating(c, x, y, v) ==
    IF ~(x \in GridX /\ y \in GridY)
    THEN c
    ELSE write_to_bank(c, c.current_frame, pixel_reg(x, y), v)

\* a build with overflow checks panics where the arithmetic overflows, a build
\* without them wraps
draw_pixel(c, x, y, v) ==
    IF c.checks /\ pixel_overflows(x, y)
    THEN [c EXCEPT !.panic = TRUE]
    ELSE write_to_bank(c, c.current_frame, pixel_reg(x, y), v)

\* a plausible slip: the loop goes on after a pixel failed
RECURSIVE draw_iter_no_short_circuit(_, _, _)
draw_iter_no_short_circuit(c, pixels, j) ==
    IF j > Len(pixels) THEN c
    ELSE LET c1 == draw_pixel(c, I16(pixels[j][1]), I16(pixels[j][2]), pixels[j][3])
         IN  IF c1.panic THEN c1 ELSE draw_iter_no_short_circuit(c1, pixels, j + 1)

\* for pixel in pixels { self.draw_pixel(x as i16, y as i16, storage)?; }
RECURSIVE draw_iter(_, _, _)
draw_iter(c, pixels, j) ==
    IF j > Len(pixels) THEN c
    ELSE LET c1 == draw_pixel(c, I16(pixels[j][1]), I16(pixels[j][2]), pixels[j][3])
         IN  IF c1.err \/ c1.panic THEN c1 ELSE draw_iter(c1, pixels, j + 1)

\* for i in 0..0x12u8 { dev.write_to_bank(f, i, 0xff)?; }
RECURSIVE enable_frame(_, _, _)
enable_frame(c, f, i) ==
    IF i >= EnableEnd THEN c
    ELSE LET c1 == write_to_bank(c, f, i, 255)
         IN  IF c1.err THEN c1 ELSE enable_frame(c1, f, i + 1)

\* for f in 0..8u8 { ... }
RECURSIVE enable_leds(_, _)
enable_leds(c, f) ==
    IF f >= NumFrames THEN c
    ELSE LET c1 == enable_frame(c, f, 0)
         IN  IF c1.err THEN c1 ELSE enable_leds(c1, f + 1)

\* a plausible slip: the settling delay placed after the shutdown release
new_delay_after_release(c0) ==
    LET dev == [c0 EXCEPT !.current_frame = 0]
        c1  == write_to_bank(dev, ISSI_BANK_FUNCTIONREG, ISSI_REG_SHUTDOWN, 0)
        c3  == write_to_bank(c1, ISSI_BANK_FUNCTIONREG, ISSI_REG_SHUTDOWN, 1)
        c3d == delay_ms(c3, ResetDelayMs)
        c4  == clear(c3d)
        c5  == enable_leds(c4, 0)
        c6  == write_to_bank(c5, ISSI_BANK_FUNCTIONREG, ISSI_REG_AUDIOSYNC, 0)
    IN  IF c1.err THEN c1
        ELSE IF c3.err THEN c3
        ELSE IF c4.err THEN c4
        ELSE IF c5.err THEN c5
        ELSE c6

\* a plausible slip: the result of clear() dropped instead of propagated
new_unchecked_clear(c0) ==
    LET dev == [c0 EXCEPT !.current_frame = 0]
        c1  == write_to_bank(dev, ISSI_BANK_FUNCTIONREG, ISSI_REG_SHUTDOWN, 0)
        c2  == delay_ms(c1, ResetDelayMs)
        c3  == write_to_bank(c2, ISSI_BANK_FUNCTIONREG, ISSI_REG_SHUTDOWN, 1)
        c4  == [clear(c3) EXCEPT !.err = FALSE]
        c5  == enable_leds(c4, 0)
        c6  == write_to_bank(c5, ISSI_BANK_FUNCTIONREG, ISSI_REG_AUDIOSYNC, 0)
    IN  IF c1.err THEN c1
        ELSE IF c3.err THEN c3
        ELSE IF c5.err THEN c5
        ELSE c6

new(c0) ==
    LET dev == [c0 EXCEPT !.current_frame = 0]
        c1  == write_to_bank(dev, ISSI_BANK_FUNCTIONREG, ISSI_REG_SHUTDOWN, 0)
        c2  == delay_ms(c1, ResetDelayMs)
        c3  == write_to_bank(c2, ISSI_BANK_FUNCTIONREG, ISSI_REG_SHUTDOWN, 1)
        c4  == clear(c3)
        c5  == enable_leds(c4, 0)
        c6  == write_to_bank(c5, ISSI_BANK_FUNCTIONREG, ISSI_REG_AUDIOSYNC, 0)
    IN  IF c1.err THEN c1
        ELSE IF c3.err THEN c3
        ELSE IF c4.err THEN c4
        ELSE IF c5.err THEN c5
        ELSE c6

\* number of bus writes a construction issues when none fails
NewWrites == 2 + 2 + 2 + (2 * NumFrames * EnableEnd) + 2

(***************************************************************************)
(* State.                                                                  *)
(***************************************************************************)
VARIABLES
    phase,          \* "off": not constructed, "ready": a driver exists,
                    \* "failed": construction returned an error,
                    \* "panicked": the program aborted
    current_frame,  \* the driver's field
    devBank,        \* bank the chip has selected
    devRegs,        \* devRegs[b][r]: register r of bank b
    log,            \* bus events of the last operation, in order
    lastOp,         \* the last operation and its arguments
    result,         \* what the last operation returned
    nOps,           \* driver calls made since construction
    overflowChecks  \* whether the build panics on arithmetic overflow

vars == <<phase, current_frame, devBank, devRegs, log, lastOp, result, nOps,
          overflowChecks>>

Op(name, frame, x, y, v, failAt) ==
    [name |-> name, frame |-> frame, x |-> x, y |-> y, v |-> v,
     pixels |-> <<>>, failAt |-> failAt]

Start(failAt) ==
    [current_frame |-> current_frame, bank |-> devBank, regs |-> devRegs,
     log |-> <<>>, n |-> 0, failAt |-> failAt, err |-> FALSE,
     checks |-> overflowChecks, panic |-> FALSE]

Outcome(c) == IF c.panic THEN "Panic" ELSE IF c.err THEN "Err" ELSE "Ok"

Commit(c, op) ==
    /\ current_frame' = c.current_frame
    /\ devBank' = c.bank
    /\ devRegs' = c.regs
    /\ log' = c.log
    /\ result' = Outcome(c)
    /\ lastOp' = op
    /\ UNCHANGED overflowChecks

\* a driver call: the driver stays usable unless the program aborted
Call(c, op) ==
    /\ Commit(c, op)
    /\ phase' = IF c.panic THEN "panicked" ELSE phase
    /\ nOps' = nOps + 1

Init ==
    /\ phase = "off"
    /\ current_frame = 0
    /\ devBank \in InitBanks
    /\ \E v \in InitFill : devRegs = [b \in Banks |-> [r \in RegsOf(b) |-> v]]
    /\ log = <<>>
    /\ lastOp = Op("none", 0, 0, 0, 0, 0)
    /\ result = "Ok"
    /\ nOps = 0
    /\ overflowChecks \in BOOLEAN

New ==
    /\ phase = "off"
    /\ \E k \in 0 .. NewWrites :
         LET c == new(Start(k))
         IN  /\ Commit(c, Op("new", 0, 0, 0, 0, k))
             /\ phase' = IF c.err THEN "failed" ELSE "ready"
    /\ nOps' = 0

Ready == phase = "ready" /\ nOps < MaxOps

SelectFrame ==
    /\ Ready
    /\ \E frame \in FrameArgs :
         Call(select_frame(Start(0), frame), Op("select_frame", frame, 0, 0, 0, 0))

DisplayFrame ==
    /\ Ready
    /\ \E frame \in FrameArgs, k \in 0 .. 2 :
         Call(display_frame(Start(k), frame), Op("display_frame", frame, 0, 0, 0, k))

Clear ==
    /\ Ready
    /\ \E k \in 0 .. 2 :
         Call(clear(Start(k)), Op("clear", 0, 0, 0, 0, k))

Fill ==
    /\ Ready
    /\ \E v \in Intensities, k \in 0 .. 2 :
         Call(fill(Start(k), v), Op("fill", 0, 0, 0, v, k))

DrawPixel ==
    /\ Ready
    /\ \E p \in PixelArgs, v \in Intensities, k \in 0 .. 2 :
         Call(draw_pixel(Start(k), p[1], p[2], v), Op("draw_pixel", 0, p[1], p[2], v, k))

\* the pixel sequences handed to draw_iter: every sequence of at most
\* MaxPixels pixels
PixelSeqs ==
    UNION {[1 .. n -> IterPixels] : n \in 0 .. MaxPixels}

DrawIter ==
    /\ Ready
    /\ \E pixels \in PixelSeqs :
         \E k \in 0 .. (2 * Len(pixels)) :
           Call(draw_iter(Start(k), pixels, 1),
                [Op("draw_iter", 0, 0, 0, 0, k) EXCEPT !.pixels = pixels])

Next ==
    \/ New
    \/ SelectFrame
    \/ DisplayFrame
    \/ Clear
    \/ Fill
    \/ DrawPixel
    \/ DrawIter

Spec == Init /\ [][Next]_vars

(***************************************************************************)
(* A second specification for the pixel mapping: after construction and    *)
(* any frame selections, one draw_pixel at any coordinate of the grid ends  *)
(* the run.                                                                *)
(***************************************************************************)
GridSelectFrame ==
    /\ lastOp.name # "draw_pixel"
    /\ SelectFrame

GridDrawPixel ==
    /\ phase = "ready"
    /\ lastOp.name # "draw_pixel"
    /\ \E x \in GridX, y \in GridY, v \in Intensities, k \in 0 .. 2 :
         Call(draw_pixel(Start(k), x, y, v), Op("draw_pixel", 0, x, y, v, k))

NextGrid ==
    \/ New
    \/ GridSelectFrame
    \/ GridDrawPixel

SpecGrid == Init /\ [][NextGrid]_vars

(***************************************************************************)
(* A third specification for coordinates off the grid: after construction  *)
(* and any frame selections, one draw_pixel off the grid ends the run.     *)
(***************************************************************************)
OffGridDrawPixel ==
    /\ phase = "ready"
    /\ lastOp.name # "draw_pixel"
    /\ \E p \in OffGridArgs, v \in Intensities, k \in 0 .. 2 :
         Call(draw_pixel(Start(k), p[1], p[2], v), Op("draw_pixel", 0, p[1], p[2], v, k))

NextOffGrid ==
    \/ New
    \/ GridSelectFrame
    \/ OffGridDrawPixel

SpecOffGrid == Init /\ [][NextOffGrid]_vars

TypeOK ==
    /\ phase \in {"off", "ready", "failed", "panicked"}
    /\ current_frame \in Byte
    /\ devBank \in Byte
    /\ \A b \in Banks : \A r \in RegsOf(b) : devRegs[b][r] \in Byte

(***************************************************************************)
(* Properties.                                                             *)
(***************************************************************************)
Constructed == phase \in {"ready", "panicked"}
DrawingOps == {"clear", "fill", "draw_pixel", "draw_iter"}
BusWrite(bytes) == Ev("write", bytes, TRUE)

\* C1: in every state reached after a successful construction, whatever
\* calls were made and however they ended, current_frame is in [0,7].
C1_CurrentFrameInRange == Constructed => current_frame \in 0 .. 7

\* an out-of-range frame was selected as the second call after construction
C1_Witness ==
    /\ phase = "ready"
    /\ nOps >= 2
    /\ lastOp.name = "select_frame"
    /\ lastOp.frame = 8

\* C2: after select_frame(frame), current_frame is frame when frame is in
\* [0,7] and 0 when frame > 7, whatever it was before.
C2_SelectFrameClamps ==
    [][lastOp'.name = "select_frame" =>
         current_frame' = IF lastOp'.frame \in 0 .. 7 THEN lastOp'.frame ELSE 0]_vars

\* frame 7 was selected, then an out-of-range frame: current_frame is 0 again
C2_Witness ==
    /\ lastOp.name = "select_frame"
    /\ lastOp.frame = 255
    /\ current_frame = 0
    /\ nOps >= 2

\* C3: display_frame(frame) on a bus that does not fail issues the bank
\* select [0xFD, 0x0B] and then exactly one write [0x01, v], v = frame for
\* frame in [0,7] and v = 0 for frame > 7, and nothing else.
C3_DisplayFrameWrites ==
    (lastOp.name = "display_frame" /\ result = "Ok") =>
        log = <<BusWrite(<<253, 11>>),
                BusWrite(<<1, IF lastOp.frame \in 0 .. 7 THEN lastOp.frame ELSE 0>>)>>

\* an out-of-range frame was displayed: the picture-frame register holds 0
C3_Witness ==
    /\ lastOp.name = "display_frame"
    /\ lastOp.frame = 255
    /\ result = "Ok"
    /\ devRegs[11][1] = 0

\* C4: select_frame issues no bus write and leaves the chip as it was; every
\* other call, succeeding or failing, leaves current_frame as it was.
C4_FramesIndependent ==
    [][/\ lastOp'.name = "select_frame" =>
            (log' = <<>> /\ devRegs' = devRegs /\ devBank' = devBank)
       /\ lastOp'.name \in (DrawingOps \cup {"display_frame"}) =>
            current_frame' = current_frame]_vars

\* frame 3 is shown while frame 7 is the drawing frame
C4_Witness ==
    /\ lastOp.name = "display_frame"
    /\ result = "Ok"
    /\ current_frame = 7
    /\ devRegs[11][1] = 3

\* C5: select_frame, clear, fill, draw_pixel and draw_iter, with any
\* arguments and however they end, leave the picture-frame register (and the
\* whole function bank) as it was: their writes land in frame banks only.
C5_OnlyDisplayFrameShows ==
    [][lastOp'.name \in (DrawingOps \cup {"select_frame"}) =>
         /\ devRegs'[11][1] = devRegs[11][1]
         /\ devRegs'[11] = devRegs[11]]_vars

\* frame 7 was put on display and the next call cleared the drawing frame
C5_Witness ==
    /\ lastOp.name = "clear"
    /\ result = "Ok"
    /\ devRegs[11][1] = 7
    /\ devRegs[current_frame][0] = 255

\* C6: clear() on a bus that does not fail issues [0xFD, current_frame] and
\* then one write of 181 bytes: address 0x00, 18 bytes 0xFF, 162 bytes 0x00.
\* Registers 0x00-0x11 of the current frame end at 0xFF, 0x12-0xB3 at 0x00,
\* and every other frame bank is as it was.
C6_ClearCommand ==
    [][(lastOp'.name = "clear" /\ result' = "Ok") =>
         /\ Len(log') = 2
         /\ log'[1] = BusWrite(<<253, current_frame>>)
         /\ log'[2].kind = "write" /\ log'[2].ok
         /\ Len(log'[2].bytes) = 181
         /\ log'[2].bytes[1] = 0
         /\ \A j \in 2 .. 19 : log'[2].bytes[j] = 255
         /\ \A j \in 20 .. 181 : log'[2].bytes[j] = 0
         /\ \A r \in 0 .. 17 : devRegs'[current_frame][r] = 255
         /\ \A r \in 18 .. 179 : devRegs'[current_frame][r] = 0
         /\ \A b \in (0 .. 7) \ {current_frame} : devRegs'[b] = devRegs[b]]_vars

\* frame 7 was selected and then cleared
C6_Witness ==
    /\ lastOp.name = "clear"
    /\ result = "Ok"
    /\ current_frame = 7
    /\ devBank = 7
    /\ devRegs[7][17] = 255
    /\ devRegs[7][18] = 0

\* C7: fill(v) on a bus that does not fail issues [0xFD, current_frame] and
\* then one write of 145 bytes: byte 0 is 0x24, bytes 1..144 are all v.
C7_FillCommand ==
    (lastOp.name = "fill" /\ result = "Ok") =>
        /\ Len(log) = 2
        /\ log[1] = BusWrite(<<253, current_frame>>)
        /\ log[2].kind = "write" /\ log[2].ok
        /\ Len(log[2].bytes) = 145
        /\ log[2].bytes[1] = 36
        /\ \A j \in 2 .. 145 : log[2].bytes[j] = lastOp.v

\* frame 3 was selected and then filled with 0x10
C7_Witness ==
    /\ lastOp.name = "fill"
    /\ lastOp.v = 16
    /\ result = "Ok"
    /\ current_frame = 3

\* C8: a successful fill(v) sets registers 0x24-0xB3 of the current frame to
\* v and changes nothing else: not the enable and blink registers of that
\* frame, not the other seven frames, not the function bank.
C8_FillTouchesOnlyPwm ==
    [][(lastOp'.name = "fill" /\ result' = "Ok") =>
         /\ \A r \in 36 .. 179 : devRegs'[current_frame][r] = lastOp'.v
         /\ \A r \in 0 .. 35 : devRegs'[current_frame][r] = devRegs[current_frame][r]
         /\ \A b \in (0 .. 7) \ {current_frame} : devRegs'[b] = devRegs[b]
         /\ devRegs'[11] = devRegs[11]]_vars

\* frame 7 was selected and filled with 0xFF: its PWM table is 0xFF, its
\* blink registers still 0, and frame 0 still dark
C8_Witness ==
    /\ lastOp.name = "fill"
    /\ result = "Ok"
    /\ current_frame = 7
    /\ devRegs[7][36] = 255
    /\ devRegs[7][179] = 255
    /\ devRegs[7][35] = 0
    /\ devRegs[0][36] = 0

\* the mapping as the specification words it
ClaimOffset(x, y) ==
    LET xr == IF x > 7 THEN 15 - x ELSE x
        yr == IF x > 7 THEN y + 8 ELSE 7 - y
    IN  yr + (16 * xr)

Grid == GridX \X GridY
OnGrid(op) == op.x \in 0 .. 15 /\ op.y \in 0 .. 7

\* C9: on x in [0,15], y in [0,7] the mapping of draw_pixel is a bijection
\* onto [0,127]: the offset of the pixel just drawn is in [0,127] and is the
\* offset of no other grid coordinate, and every offset in [0,127] is the
\* offset of some grid coordinate.
C9_MappingBijective ==
    /\ (lastOp.name = "draw_pixel" /\ OnGrid(lastOp)) =>
          /\ pixel_num(lastOp.x, lastOp.y) \in 0 .. 127
          /\ \A q \in Grid :
                pixel_num(q[1], q[2]) = pixel_num(lastOp.x, lastOp.y)
                    => q = <<lastOp.x, lastOp.y>>
    /\ {pixel_num(q[1], q[2]) : q \in Grid} = 0 .. 127
    /\ Cardinality(Grid) = 128

\* the last grid coordinate (15,7) was drawn: it maps to offset 15
C9_Witness ==
    /\ lastOp.name = "draw_pixel"
    /\ lastOp.x = 15 /\ lastOp.y = 7
    /\ result = "Ok"
    /\ log[2].bytes[1] = 36 + 15

\* C10: draw_pixel(x,y,v) with x in [0,15], y in [0,7] on a bus that does not
\* fail issues exactly [0xFD, current_frame] and [0x24 + offset(x,y), v], and
\* the chip's registers differ afterwards in that one register of the current
\* frame only; (0,0) goes to register 0x2B and (8,0) to register 0x9C.
C10_DrawPixelWrites ==
    [][(lastOp'.name = "draw_pixel" /\ OnGrid(lastOp') /\ result' = "Ok") =>
         LET reg == 36 + ClaimOffset(lastOp'.x, lastOp'.y)
         IN  /\ log' = <<BusWrite(<<253, current_frame>>),
                         BusWrite(<<reg, lastOp'.v>>)>>
             /\ devRegs' = [devRegs EXCEPT ![current_frame][reg] = lastOp'.v]
             /\ (lastOp'.x = 0 /\ lastOp'.y = 0) => reg = 43
             /\ (lastOp'.x = 8 /\ lastOp'.y = 0) => reg = 156]_vars

\* draw_pixel(8,0,0x10) into frame 7: register 0x9C of frame 7 holds 0x10
C10_Witness ==
    /\ lastOp.name = "draw_pixel"
    /\ lastOp.x = 8 /\ lastOp.y = 0 /\ lastOp.v = 16
    /\ result = "Ok"
    /\ current_frame = 7
    /\ devRegs[7][156] = 16
    /\ devRegs[0][156] = 0

\* the bus writes of a construction, as the specification lists them
ClaimClearBytes == [j \in 1 .. 181 |-> IF j = 1 THEN 0 ELSE IF j <= 19 THEN 255 ELSE 0]

ClaimNewWrites ==
    [w \in 1 .. 296 |->
        IF w = 1 THEN <<253, 11>>
        ELSE IF w = 2 THEN <<10, 0>>
        ELSE IF w = 3 THEN <<253, 11>>
        ELSE IF w = 4 THEN <<10, 1>>
        ELSE IF w = 5 THEN <<253, 0>>
        ELSE IF w = 6 THEN ClaimClearBytes
        ELSE IF w = 295 THEN <<253, 11>>
        ELSE IF w = 296 THEN <<6, 0>>
        ELSE IF (w - 7) % 2 = 0 THEN <<253, (w - 7) \div 36>>
        ELSE <<((w - 7) % 36) \div 2, 255>>]

\* the events of a construction whose k-th write fails (k = 0: none fails):
\* the writes up to the k-th, the 10 ms delay between the second and third
ClaimNewLog(k) ==
    LET nw  == IF k = 0 THEN 296 ELSE k
        len == IF nw >= 3 THEN nw + 1 ELSE nw
    IN  [p \in 1 .. len |->
            IF p <= 2 THEN Ev("write", ClaimNewWrites[p], p # k)
            ELSE IF p = 3 THEN Ev("delay", <<10>>, TRUE)
            ELSE Ev("write", ClaimNewWrites[p - 1], (p - 1) # k)]

OkWrites == {p \in 1 .. Len(log) : log[p].kind = "write" /\ log[p].ok}
Delays == {p \in 1 .. Len(log) : log[p].kind = "delay"}

\* C11: a successful construction issues, in this order, [0xFD,0x0B],
\* [0x0A,0x00], the 10 ms delay, [0xFD,0x0B], [0x0A,0x01], clear() on frame
\* 0, the pairs [0xFD,f],[i,0xFF] for f = 0..7 and i = 0x00..0x11, and
\* [0xFD,0x0B],[0x06,0x00]; the delay happens once, between the two shutdown
\* writes; the driver returned has current_frame = 0.
C11_ConstructionOrder ==
    (lastOp.name = "new" /\ result = "Ok") =>
        /\ log = ClaimNewLog(0)
        /\ Delays = {3}
        /\ log[2] = BusWrite(<<10, 0>>)
        /\ log[5] = BusWrite(<<10, 1>>)
        /\ current_frame = 0
        /\ phase = "ready"

\* a construction from a chip holding 0xA5 everywhere went through
C11_Witness ==
    /\ lastOp.name = "new"
    /\ result = "Ok"
    /\ phase = "ready"
    /\ Len(log) = 297
    /\ devRegs[11][0] = 165

\* C12: when the k-th bus write of construction fails, exactly k-1 writes
\* succeeded before it, it is the last event, there was no delay if k <= 2,
\* the error is returned and no driver exists; for k = 3 two writes
\* succeeded before.
C12_ConstructionAborts ==
    (lastOp.name = "new" /\ lastOp.failAt >= 1) =>
        /\ log = ClaimNewLog(lastOp.failAt)
        /\ Cardinality(OkWrites) = lastOp.failAt - 1
        /\ ~log[Len(log)].ok
        /\ lastOp.failAt <= 2 => Delays = {}
        /\ lastOp.failAt = 3 => Cardinality(OkWrites) = 2
        /\ result = "Err"
        /\ phase = "failed"

\* the third write failed: two writes and the delay came before it
C12_Witness ==
    /\ lastOp.name = "new"
    /\ lastOp.failAt = 3
    /\ result = "Err"
    /\ phase = "failed"
    /\ Len(log) = 4

\* C13 as stated: after a successful construction, from any register
\* contents, every frame 0..7 has its enable registers 0x00-0x11 at 0xFF and
\* its blink and PWM registers 0x12-0xB3 at 0x00.
C13_AllFramesInitialized ==
    (lastOp.name = "new" /\ result = "Ok") =>
        \A f \in 0 .. 7 :
            /\ \A r \in 0 .. 17 : devRegs[f][r] = 255
            /\ \A r \in 18 .. 179 : devRegs[f][r] = 0

\* the bus writes draw_iter owes for a pixel sequence: per pixel the bank
\* select of the drawing frame and the register write of draw_pixel
ClaimIterWrites(pixels, frame) ==
    [w \in 1 .. (2 * Len(pixels)) |->
        LET px == pixels[(w + 1) \div 2]
        IN  IF w % 2 = 1
            THEN <<253, frame>>
            ELSE <<(36 + ClaimOffset(I16(px[1]), I16(px[2]))) % 256, px[3]>>]

WriteIndex(p) == p - Cardinality({d \in Delays : d < p})

\* the bank the w-th write (a register write, w even) of the last operation
\* is meant for
IntendedBank(w) ==
    IF lastOp.name = "new"
    THEN IF w \in {2, 4, 296} THEN 11
         ELSE IF w = 6 THEN 0
         ELSE (w - 8) \div 36
    ELSE IF lastOp.name = "display_frame" THEN 11
    ELSE current_frame

\* every register write in the log directly follows a successful select of
\* its bank
SelectsPrecede ==
    \A p \in 1 .. Len(log) :
        (log[p].kind = "write" /\ WriteIndex(p) % 2 = 0) =>
            /\ p > 1
            /\ log[p - 1] = BusWrite(<<253, IntendedBank(WriteIndex(p))>>)

\* C15: in every operation, construction included, each register write is
\* immediately preceded by the bank select [0xFD, b] of the bank it is meant
\* for; so whatever bank the chip had selected before, a call changes
\* registers of its own bank only.
C15_BankReselected ==
    [][/\ SelectsPrecede'
       /\ lastOp'.name # "new" =>
            \A b \in Banks :
                b # IntendedBank(2)' => devRegs'[b] = devRegs[b]]_vars

\* the first call after construction, with the function bank still selected,
\* filled frame 0
C15_Witness ==
    /\ lastOp.name = "fill"
    /\ result = "Ok"
    /\ nOps = 1
    /\ devBank = 0
    /\ devRegs[0][36] = 255
    /\ devRegs[0][179] = 255

\* C16: clear, fill, draw_pixel and display_frame issue at most two writes
\* and never retry: when the bank select fails it is the only write and the
\* error is returned; when the second write fails the error is returned;
\* a failed write is never followed by another.
C16_FailFast ==
    (lastOp.name \in {"clear", "fill", "draw_pixel", "display_frame"} /\ result # "Panic") =>
        /\ Len(log) <= 2
        /\ \A p \in 1 .. Len(log) : log[p].kind = "write"
        /\ \A p \in 1 .. (Len(log) - 1) : log[p].ok
        /\ lastOp.failAt = 1 => (Len(log) = 1 /\ ~log[1].ok /\ result = "Err")
        /\ lastOp.failAt = 2 => (Len(log) = 2 /\ ~log[2].ok /\ result = "Err")
        /\ lastOp.failAt = 0 => (Len(log) = 2 /\ log[2].ok /\ result = "Ok")

\* the bank select of a fill failed: one write, the error, the frame untouched
C16_Witness ==
    /\ lastOp.name = "fill"
    /\ lastOp.failAt = 1
    /\ result = "Err"
    /\ Len(log) = 1
    /\ devRegs[current_frame][36] = 0

\* the register byte of an unvalidated draw_pixel: 0x24 plus the offset,
\* reduced to 8 bits
ClaimReg8(x, y) == (36 + ClaimOffset(x, y)) % 256

InI16(n) == n >= -32768 /\ n <= 32767

\* some step of the mapping leaves i16, or the final u8 addition leaves u8
ClaimOverflows(x, y) ==
    LET xr == IF x > 7 THEN 15 - x ELSE x
        yr == IF x > 7 THEN y + 8 ELSE 7 - y
    IN  \/ ~InI16(yr)
        \/ ~InI16(16 * xr)
        \/ ~InI16(yr + (16 * xr))
        \/ 36 + ((yr + (16 * xr)) % 256) > 255

\* the events of a draw_pixel that got as far as the bus
ClaimPixelLog(op, frame) ==
    LET W  == <<(<<253, frame>>), (<<ClaimReg8(op.x, op.y), op.v>>)>>
        nw == IF op.failAt = 0 THEN 2 ELSE op.failAt
    IN  [p \in 1 .. nw |-> Ev("write", W[p], p # op.failAt)]

\* C17 as stated: off the grid draw_pixel reports no error of its own and
\* still issues the bank select followed by one register write at 0x24 plus
\* the offset reduced to 8 bits.
C17_OffGridAlwaysWrites ==
    (lastOp.name = "draw_pixel" /\ ~OnGrid(lastOp)) =>
        /\ result \in {"Ok", "Err"}
        /\ log = ClaimPixelLog(lastOp, current_frame)

\* C17 amended: off the grid draw_pixel validates nothing and reports no
\* range error.  Unless the build checks overflow and a step of the
\* arithmetic overflows, it issues the bank select followed by one register
\* write at (0x24 + offset) mod 256, possibly outside the PWM table; in a
\* build with overflow checks it panics without a bus write exactly when the
\* i16 arithmetic or the u8 addition overflows.
C17_OffGridUnvalidated ==
    (lastOp.name = "draw_pixel" /\ ~OnGrid(lastOp)) =>
        /\ (result = "Panic") <=> (overflowChecks /\ ClaimOverflows(lastOp.x, lastOp.y))
        /\ result = "Panic" => log = <<>>
        /\ result # "Panic" =>
              /\ log = ClaimPixelLog(lastOp, current_frame)
              /\ result = IF lastOp.failAt = 0 THEN "Ok" ELSE "Err"

\* draw_pixel(16,0,v) in a build without overflow checks wrote blink register
\* 0x1C of frame 7
C17_Witness ==
    /\ lastOp.name = "draw_pixel"
    /\ lastOp.x = 16 /\ lastOp.y = 0
    /\ ~overflowChecks
    /\ result = "Ok"
    /\ current_frame = 7
    /\ log[2].bytes[1] = 28
    /\ devRegs[7][28] = lastOp.v

\* C18: on the grid the register address 0x24 + offset is computed without
\* overflow, also in a build that checks it, and lies in [0x24, 0xA3]: in
\* the PWM table, never an enable or blink register or the command register.
C18_OnGridRegisterInTable ==
    (lastOp.name = "draw_pixel" /\ OnGrid(lastOp)) =>
        /\ result # "Panic"
        /\ ~pixel_overflows(lastOp.x, lastOp.y)
        /\ pixel_steps(lastOp.x, lastOp.y).regm \in 36 .. 163
        /\ Len(log) = 2 =>
              /\ log[2].bytes[1] \in 36 .. 163
              /\ log[2].bytes[1] \notin 0 .. 35
              /\ log[2].bytes[1] # 253

\* draw_pixel(8,7,v) in a build with overflow checks wrote register 0xA3, the
\* highest one the grid reaches
C18_Witness ==
    /\ lastOp.name = "draw_pixel"
    /\ lastOp.x = 8 /\ lastOp.y = 7
    /\ overflowChecks
    /\ result = "Ok"
    /\ log[2].bytes[1] = 163
    /\ devRegs[current_frame][163] = lastOp.v

AllEnabled == \A f \in 0 .. 7 : \A r \in 0 .. 17 : devRegs[f][r] = 255

\* C19: a successful construction leaves the enable registers 0x00-0x11 of
\* all 8 frames at 0xFF, and every successful select_frame, display_frame,
\* clear, fill and on-grid draw_pixel keeps them there.
C19_LedsStayEnabled ==
    [][/\ (lastOp'.name = "new" /\ result' = "Ok") => AllEnabled'
       /\ (/\ phase = "ready"
           /\ AllEnabled
           /\ lastOp'.name \in {"select_frame", "display_frame", "clear", "fill", "draw_pixel"}
           /\ result' = "Ok"
           /\ lastOp'.name = "draw_pixel" => OnGrid(lastOp'))
          => AllEnabled']_vars

\* frame 7 was selected and filled with 0xFF: every LED is still enabled
C19_Witness ==
    /\ lastOp.name = "fill"
    /\ lastOp.v = 255
    /\ result = "Ok"
    /\ current_frame = 7
    /\ devRegs[7][36] = 255
    /\ AllEnabled

\* C20: once constructed, whatever is called and however it ends, the
\* shutdown register 0x0A stays 1 and the audio-sync register 0x06 stays 0;
\* the only function-bank register that changes is the picture-frame
\* register 0x01.
C20_StaysInNormalOperation ==
    [][/\ (lastOp'.name = "new" /\ result' = "Ok") =>
            (devRegs'[11][10] = 1 /\ devRegs'[11][6] = 0)
       /\ phase = "ready" =>
            /\ devRegs'[11][10] = 1
            /\ devRegs'[11][6] = 0
            /\ \A r \in (0 .. 12) \ {1} : devRegs'[11][r] = devRegs[11][r]]_vars

\* frame 7 was put on display as the second call: the chip is still running
C20_Witness ==
    /\ lastOp.name = "display_frame"
    /\ lastOp.frame = 7
    /\ result = "Ok"
    /\ nOps >= 2
    /\ devRegs[11][1] = 7
    /\ devRegs[11][10] = 1
    /\ devRegs[11][6] = 0

====
